---- MODULE Spec2Model ----
(***************************************************************************)
(* Model of ulab's user module (code/user/user.c): the fixed-point         *)
(* HSV -> RGB kernels hsv2rgb / hsv2rgb16, the shared output provisioning  *)
(* get_or_create_dense_out, and the element-wise inplace_wrap8.            *)
(*                                                                         *)
(* Memory is a byte-addressed function; an ndarray is a descriptor         *)
(* (array pointer, ndim, shape, byte strides, dtype) over that memory.     *)
(* Pointers r, g, b, array, inputs are byte addresses.                     *)
(***************************************************************************)
EXTENDS Integers, Sequences, FiniteSets, TLC

VARIABLES
    \* ---- one call of hsv2rgb / hsv2rgb16 (specification Spec) ----
    fn,        \* entry point being called
    srcObj,    \* the src argument: an ndarray descriptor or a non-ndarray object
    destObj,   \* the dest argument: None, a non-ndarray object, or a descriptor
    mem,       \* the heap: byte address -> byte
    mem0,      \* heap contents when the call was made (history)
    pc,        \* "idle", "loop", "done", "error"
    err,       \* message of the raised TypeError, "" when none
    results,   \* descriptor of the resolved destination
    array,     \* uint8_t *array  (write cursor)
    inputs,    \* uint8_t *inputs (read cursor)
    k,         \* size_t k
    written,   \* addresses stored to by the call (history)
    loaded,    \* addresses loaded from by the call (history)
    \* ---- one row through both kernels (specification SpecRow) ----
    hsv,       \* the logical row <<H, S, V>>
    rgb8,      \* bytes hsv2rgb wrote for it, <<>> before the call
    rgb16,     \* bytes hsv2rgb16 wrote for it, <<>> before the call
    \* ---- inplace_wrap8 (specification SpecWrap) ----
    warr,      \* the int16 elements of the ndarray, in traversal order
    warr0,     \* the elements before the call (history)
    wdtype,    \* dtype of the ndarray
    wpc        \* "idle", "done", "error"

callVars == <<fn, srcObj, destObj, mem, mem0, pc, err, results, array, inputs,
              k, written, loaded>>
rowVars  == <<hsv, rgb8, rgb16>>
wrapVars == <<warr, warr0, wdtype, wpc>>
vars     == <<callVars, rowVars, wrapVars>>

----------------------------------------------------------------------------
(* C integer conversions and memory access *)

\* conversion to uint8_t
ToU8(x) == x % 256

\* conversion to uint16_t
ToU16(x) == x % 65536

\* conversion of a 16-bit pattern to int16_t
ToI16(x) == IF ToU16(x) >= 32768 THEN ToU16(x) - 65536 ELSE ToU16(x)

\* C's % on int: the remainder of a division truncated toward zero
CRem(a, n) == IF a >= 0 THEN a % n ELSE 0 - ((0 - a) % n)

\* x & bit, as a truth value; bit is a power of two
BitAnd(x, bit) == (x \div bit) % 2 = 1

\* *(uint8_t *)a
LoadU8(m, a) == m[a]

\* *(int16_t *)a, little endian
LoadI16(m, a) == ToI16(m[a] + 256 * m[a + 1])

\* *(uint8_t *)a = x
Store(m, a, x) == [m EXCEPT ![a] = x]

Byte == 0 .. 255

----------------------------------------------------------------------------
(* The per-row kernel of user_hsv2rgb, lines 73..132 *)

\* a bug: the swap of g and b under "sextant & 4" is left out
swap_pointers_no_gb(sextant, r0, g0, b0) ==
    LET p0 == [r |-> r0, g |-> g0, b |-> b0]
        p2 == IF BitAnd(sextant, 2) THEN [p0 EXCEPT !.r = p0.b, !.b = p0.r] ELSE p0
        sw == [p2 EXCEPT !.r = p2.g, !.g = p2.r]
    IN  IF ~(BitAnd(sextant, 2) \/ BitAnd(sextant, 4))
        THEN (IF ~BitAnd(sextant, 1) THEN sw ELSE p2)
        ELSE (IF BitAnd(sextant, 1) THEN sw ELSE p2)

\* the pointer swaps that put r, g, b on the slots of the sextant
swap_pointers(sextant, r0, g0, b0) ==
    LET p0 == [r |-> r0, g |-> g0, b |-> b0]
        p1 == IF BitAnd(sextant, 2) THEN [p0 EXCEPT !.r = p0.b, !.b = p0.r] ELSE p0
        p2 == IF BitAnd(sextant, 4) THEN [p1 EXCEPT !.g = p1.b, !.b = p1.g] ELSE p1
        sw == [p2 EXCEPT !.r = p2.g, !.g = p2.r]
    IN  IF ~(BitAnd(sextant, 2) \/ BitAnd(sextant, 4))
        THEN (IF ~BitAnd(sextant, 1) THEN sw ELSE p2)
        ELSE (IF BitAnd(sextant, 1) THEN sw ELSE p2)

\* a bug: the "ww += 1" is left out
min_channel_ww_no_inc(v, s) ==
    LET w0 == ToU16(v * (255 - s))
    IN  ToU16(w0 + (w0 \div 256))

\* uint16_t ww after "ww = v * (255 - s); ww += 1; ww += ww >> 8;"
min_channel_ww(v, s) ==
    LET w0 == ToU16(v * (255 - s))
        w1 == ToU16(w0 + 1)
    IN  ToU16(w1 + (w1 \div 256))

\* uint32_t d after the three statements of either branch; every operand is
\* at most 255 * 65535 + 65535 + 255, far below 2^32, so uint32_t never wraps
transition_d(v, s, h_fraction, sextant) ==
    LET x  == IF ~BitAnd(sextant, 1)
              THEN ToU16(s * (256 - h_fraction))
              ELSE ToU16(s * h_fraction)
        d0 == v * (65280 - x)
        d1 == d0 + (d0 \div 256)
    IN  d1 + v

\* a bug: the grayscale case stores v through r only
gray_store_r_only(m, arr, v) == Store(m, arr + 0, v)

\* "*r = *g = *b = v" with r, g, b still array+0, array+1, array+2
gray_store(m, arr, v) ==
    Store(Store(Store(m, arr + 2, v), arr + 1, v), arr + 0, v)

\* a bug: h_fraction is taken from a second load of the hue, made after the
\* stores through g and b
hsv2rgb_body_late_hue(m, arr, inp, cs) ==
    LET s == LoadU8(m, inp + cs)
        v == LoadU8(m, inp + cs * 2)
    IN  IF s = 0
        THEN gray_store(m, arr, v)
        ELSE LET h          == ToU16(LoadU8(m, inp) * 6)
                 sextant    == ToU8(h \div 256)
                 p          == swap_pointers(sextant, arr + 0, arr + 1, arr + 2)
                 m1         == Store(m, p.g, v)
                 m2         == Store(m1, p.b, ToU8(min_channel_ww(v, s) \div 256))
                 h_fraction == ToU8(ToU16(LoadU8(m2, inp) * 6))
                 d          == transition_d(v, s, h_fraction, sextant)
             IN  Store(m2, p.r, ToU8(d \div 65536))

\* one pass of the inner do { ... } while (0): the heap after the row at
\* inputs (channel stride cs) was converted into the three bytes at array
hsv2rgb_body(m, arr, inp, cs) ==
    LET s == LoadU8(m, inp + cs)
        v == LoadU8(m, inp + cs * 2)
    IN  IF s = 0
        THEN gray_store(m, arr, v)
        ELSE LET h          == ToU16(LoadU8(m, inp) * 6)
                 sextant    == ToU8(h \div 256)
                 p          == swap_pointers(sextant, arr + 0, arr + 1, arr + 2)
                 m1         == Store(m, p.g, v)
                 m2         == Store(m1, p.b, ToU8(min_channel_ww(v, s) \div 256))
                 h_fraction == ToU8(h)
                 d          == transition_d(v, s, h_fraction, sextant)
             IN  Store(m2, p.r, ToU8(d \div 65536))

\* the addresses the pass loads from: s and v always, h unless s == 0
hsv2rgb_loads(m, inp, cs) ==
    IF LoadU8(m, inp + cs) = 0
    THEN {inp + cs, inp + cs * 2}
    ELSE {inp + cs, inp + cs * 2, inp}

----------------------------------------------------------------------------
(* The per-row kernel of user_hsv2rgb16, lines 166..224 *)

swap_pointers16(sextant, r0, g0, b0) ==
    LET p0 == [r |-> r0, g |-> g0, b |-> b0]
        p1 == IF BitAnd(sextant, 2) THEN [p0 EXCEPT !.r = p0.b, !.b = p0.r] ELSE p0
        p2 == IF BitAnd(sextant, 4) THEN [p1 EXCEPT !.g = p1.b, !.b = p1.g] ELSE p1
        sw == [p2 EXCEPT !.r = p2.g, !.g = p2.r]
    IN  IF ~(BitAnd(sextant, 2) \/ BitAnd(sextant, 4))
        THEN (IF ~BitAnd(sextant, 1) THEN sw ELSE p2)
        ELSE (IF BitAnd(sextant, 1) THEN sw ELSE p2)

min_channel_ww16(v, s) ==
    LET w0 == ToU16(v * (255 - s))
        w1 == ToU16(w0 + 1)
    IN  ToU16(w1 + (w1 \div 256))

\* a bug: both branches use s * h_fraction
transition_d16_one_branch(v, s, h_fraction, sextant) ==
    LET x  == ToU16(s * h_fraction)
        d0 == v * (65280 - x)
        d1 == d0 + (d0 \div 256)
    IN  d1 + v

transition_d16(v, s, h_fraction, sextant) ==
    LET x  == IF ~BitAnd(sextant, 1)
              THEN ToU16(s * (256 - h_fraction))
              ELSE ToU16(s * h_fraction)
        d0 == v * (65280 - x)
        d1 == d0 + (d0 \div 256)
    IN  d1 + v

gray_store16(m, arr, v) ==
    Store(Store(Store(m, arr + 2, v), arr + 1, v), arr + 0, v)

\* s and v are narrowed to uint8_t on assignment; h is the int16_t hue times
\* 6, narrowed to uint16_t only
hsv2rgb16_body(m, arr, inp, cs) ==
    LET s == ToU8(LoadI16(m, inp + cs))
        v == ToU8(LoadI16(m, inp + cs * 2))
    IN  IF s = 0
        THEN gray_store16(m, arr, v)
        ELSE LET h          == ToU16(LoadI16(m, inp) * 6)
                 sextant    == ToU8(h \div 256)
                 p          == swap_pointers16(sextant, arr + 0, arr + 1, arr + 2)
                 m1         == Store(m, p.g, v)
                 m2         == Store(m1, p.b, ToU8(min_channel_ww16(v, s) \div 256))
                 h_fraction == ToU8(h)
                 d          == transition_d16(v, s, h_fraction, sextant)
             IN  Store(m2, p.r, ToU8(d \div 65536))

hsv2rgb16_loads(m, inp, cs) ==
    IF ToU8(LoadI16(m, inp + cs)) = 0
    THEN {inp + cs, inp + cs + 1, inp + cs * 2, inp + cs * 2 + 1}
    ELSE {inp + cs, inp + cs + 1, inp + cs * 2, inp + cs * 2 + 1, inp, inp + 1}

----------------------------------------------------------------------------
(* Specification SpecRow: one logical row <<H, S, V>> through both kernels *)

\* the two bytes of an int16_t in memory, little endian
I16Byte(x, i) == IF i = 0 THEN ToU16(x) % 256 ELSE ToU16(x) \div 256

\* heap of a call on one row: the (1, 3) uint8 destination at 0..2 and a
\* dense (1, 3) uint8 source holding the row at 3..5
RowMem8(row) == [a \in 0 .. 5 |-> IF a < 3 THEN 0 ELSE row[a - 2]]

\* the same with a dense (1, 3) int16 source at 3..8
RowMem16(row) ==
    [a \in 0 .. 8 |-> IF a < 3 THEN 0
                      ELSE I16Byte(row[((a - 3) \div 2) + 1], (a - 3) % 2)]

\* the destination row after hsv2rgb on the row
RowOut8(row) ==
    LET m == hsv2rgb_body(RowMem8(row), 0, 3, 1) IN <<m[0], m[1], m[2]>>

\* the destination row after hsv2rgb16 on the row
RowOut16(row) ==
    LET m == hsv2rgb16_body(RowMem16(row), 0, 3, 2) IN <<m[0], m[1], m[2]>>

\* sampled channel values: the ends and the middle of the byte range
SatSamples == {0, 1, 127, 128, 254, 255}
ValSamples == {0, 1, 128, 255}
HueSamples == {0, 100}
\* int16 values on both sides of the byte range
WideSamples == {-32768, -257, -256, -1, 0, 1, 255, 256, 257, 300, 32767}

\* rows a uint8 array can hold: every hue with sampled S and V, every (S, V)
\* pair with sampled hues, and every (H, V) pair with S = 0
IsSampledByteRow(h, s, v) ==
    \/ s \in SatSamples /\ v \in ValSamples
    \/ h \in HueSamples
    \/ s = 0

IsByteRow(row) == row[1] \in Byte /\ row[2] \in Byte /\ row[3] \in Byte

CallIdle ==
    /\ fn = "none" /\ srcObj = "none" /\ destObj = "none"
    /\ mem = <<>> /\ mem0 = <<>> /\ pc = "off" /\ err = ""
    /\ results = "none" /\ array = 0 /\ inputs = 0 /\ k = 0
    /\ written = {} /\ loaded = {}

RowIdle == hsv = <<0, 0, 0>> /\ rgb8 = <<>> /\ rgb16 = <<>>

WrapIdle == warr = <<>> /\ warr0 = <<>> /\ wdtype = "none" /\ wpc = "off"

InitRow ==
    /\ \/ \E h \in Byte, s \in Byte, v \in Byte :
              IsSampledByteRow(h, s, v) /\ hsv = <<h, s, v>>
       \/ \E h \in WideSamples, s \in WideSamples, v \in WideSamples :
              hsv = <<h, s, v>>
    /\ rgb8 = <<>>
    /\ rgb16 = <<>>
    /\ CallIdle
    /\ WrapIdle

\* hsv2rgb(None, row as uint8 (1, 3))
Row8 ==
    /\ rgb8 = <<>>
    /\ IsByteRow(hsv)
    /\ rgb8' = RowOut8(hsv)
    /\ UNCHANGED <<hsv, rgb16, callVars, wrapVars>>

\* hsv2rgb16(None, row as int16 (1, 3))
Row16 ==
    /\ rgb16 = <<>>
    /\ rgb16' = RowOut16(hsv)
    /\ UNCHANGED <<hsv, rgb8, callVars, wrapVars>>

NextRow == Row8 \/ Row16

SpecRow == InitRow /\ [][NextRow]_vars

----------------------------------------------------------------------------
(* ndarray descriptors and the heap of one call *)

\* most rows of a source array
MaxN == 2
\* largest row stride of a source view, in elements
MaxRowStride == 4
\* number of different initial heap contents
NumSeeds == 2

\* elements of the storage the source views look into
SrcElems == MaxN * MaxRowStride
\* the source storage is at 0 .. DstBase-1, a separate destination after it
DstBase == 2 * SrcElems
MemSize == DstBase + 3 * MaxN + 6

itemsize(dtype) == IF dtype = "int16" THEN 2 ELSE 1

\* shape and strides hold the last two dimensions: index 1 is
\* [ULAB_MAX_DIMS - 2], index 2 is [ULAB_MAX_DIMS - 1]
ndarray(dtype, ndim, shape, strides, arr) ==
    [kind |-> "ndarray", dtype |-> dtype, ndim |-> ndim, shape |-> shape,
     strides |-> strides, array |-> arr]

\* mp_const_none
mp_const_none ==
    [kind |-> "none", dtype |-> "", ndim |-> 0, shape |-> <<0, 0>>,
     strides |-> <<0, 0>>, array |-> 0]

\* an object that is not of ulab_ndarray_type
not_ndarray ==
    [kind |-> "other", dtype |-> "", ndim |-> 0, shape |-> <<0, 0>>,
     strides |-> <<0, 0>>, array |-> 0]

\* row-major strides without gaps
dense_strides(shape, dtype) == <<shape[2] * itemsize(dtype), itemsize(dtype)>>

\* ndarray_is_dense: the layout has no gaps
ndarray_is_dense(nd) ==
    IF nd.ndim = 2
    THEN nd.strides = dense_strides(nd.shape, nd.dtype)
    ELSE nd.strides[2] = itemsize(nd.dtype)

\* ndarray_new_dense_ndarray: a fresh dense array, placed at DstBase
ndarray_new_dense_ndarray(ndim, shape, dtype) ==
    ndarray(dtype, ndim, shape, dense_strides(shape, dtype), DstBase)

----------------------------------------------------------------------------
(* Output provisioning, lines 21..49 *)

Raise(msg) == [err |-> msg, results |-> mp_const_none]
Return(nd) == [err |-> "", results |-> nd]

\* a bug: the density check is left out
get_or_create_dense_out_no_dense(out, ndim, shape, dtype) ==
    IF out = mp_const_none
    THEN Return(ndarray_new_dense_ndarray(ndim, shape, dtype))
    ELSE IF out.kind # "ndarray"
    THEN Raise("output must be an ndarray")
    ELSE IF out.ndim # ndim \/ out.shape # shape
    THEN Raise("output does not match the expected shape")
    ELSE IF out.dtype # dtype
    THEN Raise("output does not match the expected dtype")
    ELSE Return(out)

get_or_create_dense_out(out, ndim, shape, dtype) ==
    IF out = mp_const_none
    THEN Return(ndarray_new_dense_ndarray(ndim, shape, dtype))
    ELSE IF out.kind # "ndarray"
    THEN Raise("output must be an ndarray")
    ELSE IF ~ndarray_is_dense(out)
    THEN Raise("output must be a dense ndarray")
    ELSE IF out.ndim # ndim \/ out.shape # shape
    THEN Raise("output does not match the expected shape")
    ELSE IF out.dtype # dtype
    THEN Raise("output does not match the expected dtype")
    ELSE Return(out)

get_or_create_dense_out_like(out, nd) ==
    get_or_create_dense_out(out, nd.ndim, nd.shape, nd.dtype)

----------------------------------------------------------------------------
(* user_hsv2rgb and user_hsv2rgb16 up to their loops *)

\* lines 53..66: the checks of src, then the destination
user_hsv2rgb_prologue(dest, src) ==
    IF src.kind # "ndarray"
    THEN Raise("input must be an ndarray")
    ELSE IF src.dtype # "uint8"
    THEN Raise("input must be have dtype uint8")
    ELSE IF src.ndim # 2 \/ src.shape[2] # 3
    THEN Raise("input must have shape (N, 3)")
    ELSE get_or_create_dense_out_like(dest, src)

\* lines 146..159
user_hsv2rgb16_prologue(dest, src) ==
    IF src.kind # "ndarray"
    THEN Raise("input must be an ndarray")
    ELSE IF src.dtype # "int16"
    THEN Raise("input must be have dtype int16")
    ELSE IF src.ndim # 2 \/ src.shape[2] # 3
    THEN Raise("input must have shape (N, 3)")
    ELSE get_or_create_dense_out(dest, src.ndim, src.shape, "uint8")

\* a bug: the source is taken to be dense, rows 3 elements apart
next_inputs_dense(inp, strides) == inp + 3

\* (inputs) += (strides)[ULAB_MAX_DIMS - 2]
next_inputs(inp, strides) == inp + strides[1]

----------------------------------------------------------------------------
(* Specification Spec: one call of hsv2rgb or hsv2rgb16 *)

PaletteU8  == <<0, 200, 255, 43, 0, 128, 170, 255, 1, 85, 64, 213, 7, 250>>
PaletteI16 == <<0, 200, 255, -1, 0, 300, 170, 256, 1, 85, -257, 213, 7, 511>>

\* element e of the source storage under a seed
InitElement(dtype, e, seed) ==
    IF dtype = "int16"
    THEN PaletteI16[((e + 5 * seed) % Len(PaletteI16)) + 1]
    ELSE PaletteU8[((e + 5 * seed) % Len(PaletteU8)) + 1]

\* the heap before the call: the source storage, then bytes of 0xAA
InitHeap(dtype, seed) ==
    [a \in 0 .. MemSize - 1 |->
        IF a >= SrcElems * itemsize(dtype) THEN 170
        ELSE IF dtype = "int16"
        THEN I16Byte(InitElement(dtype, a \div 2, seed), a % 2)
        ELSE InitElement(dtype, a, seed)]

Rows(n) == IF n = 0 THEN 1 ELSE n

\* a view of n rows: all its elements, and the row at its base when n = 0,
\* lie in the storage
ViewInStorage(n, off, rs, cs) ==
    \A i \in 0 .. Rows(n) - 1 : \A c \in 0 .. 2 :
        off + i * rs + c * cs \in 0 .. SrcElems - 1

\* source arguments: views of shape (n, 3), padded, sliced, overlapping or
\* reversed, and arguments the checks reject
SrcChoices(dtype) ==
    {ndarray(dtype, 2, <<n, 3>>,
             <<rs * itemsize(dtype), cs * itemsize(dtype)>>, off * itemsize(dtype)) :
        <<n, off, rs, cs>> \in
            {v \in (0 .. MaxN) \X (0 .. SrcElems - 1)
                   \X (-MaxRowStride .. MaxRowStride) \X {-1, 1, 2} :
                ViewInStorage(v[1], v[2], v[3], v[4])}}
    \cup {not_ndarray,
          ndarray(dtype, 1, <<0, 3>>, dense_strides(<<0, 3>>, dtype), 0),
          ndarray(dtype, 2, <<1, 4>>, dense_strides(<<1, 4>>, dtype), 0),
          ndarray(dtype, 2, <<2, 2>>, dense_strides(<<2, 2>>, dtype), 0)}

\* row-major strides with one element of padding after each row
padded_strides(shape, dtype) ==
    <<(shape[2] + 1) * itemsize(dtype), itemsize(dtype)>>

\* destination arguments: None, a non-ndarray, arrays at DstBase of either
\* dtype, matching or not in shape and density, and dense uint8 arrays of the
\* source's shape lying in the source storage
DestChoices(src) ==
    {mp_const_none, not_ndarray,
     ndarray("uint8", 1, <<0, 3>>, dense_strides(<<0, 3>>, "uint8"), DstBase)}
    \cup {ndarray(d[1], 2, d[2],
                  IF d[3] THEN dense_strides(d[2], d[1]) ELSE padded_strides(d[2], d[1]),
                  DstBase) :
            d \in {"uint8", "int16"}
                  \X {src.shape, <<src.shape[1] + 1, 3>>, <<src.shape[1], 4>>}
                  \X BOOLEAN}
    \cup (IF src.kind = "ndarray" /\ src.dtype = "uint8" /\ src.shape[2] = 3
          THEN {ndarray("uint8", 2, src.shape, dense_strides(src.shape, "uint8"), a) :
                    a \in 0 .. SrcElems - 3 * Rows(src.shape[1])}
          ELSE {})

Init ==
    /\ fn \in {"hsv2rgb", "hsv2rgb16"}
    /\ \E dtype \in {"uint8", "int16"}, seed \in 0 .. NumSeeds - 1 :
        /\ srcObj \in SrcChoices(dtype)
        /\ mem = InitHeap(dtype, seed)
    /\ destObj \in DestChoices(srcObj)
    /\ mem0 = mem
    /\ pc = "idle"
    /\ err = ""
    /\ results = mp_const_none
    /\ array = 0
    /\ inputs = 0
    /\ k = 0
    /\ written = {}
    /\ loaded = {}
    /\ RowIdle
    /\ WrapIdle

Prologue ==
    IF fn = "hsv2rgb"
    THEN user_hsv2rgb_prologue(destObj, srcObj)
    ELSE user_hsv2rgb16_prologue(destObj, srcObj)

\* a check fails: mp_raise_TypeError leaves the function
CallRaise ==
    /\ pc = "idle"
    /\ Prologue.err # ""
    /\ pc' = "error"
    /\ err' = Prologue.err
    /\ UNCHANGED <<fn, srcObj, destObj, mem, mem0, results, array, inputs, k,
                   written, loaded, rowVars, wrapVars>>

\* all checks pass: lines 66..71 (159..164), up to the first "do"
CallEnter ==
    /\ pc = "idle"
    /\ Prologue.err = ""
    /\ results' = Prologue.results
    /\ array' = Prologue.results.array
    /\ inputs' = srcObj.array
    /\ k' = 0
    /\ pc' = "loop"
    /\ UNCHANGED <<fn, srcObj, destObj, mem, mem0, err, written, loaded,
                   rowVars, wrapVars>>

\* one pass of the outer do { ... } while (k < results->shape[...]) of
\* user_hsv2rgb, lines 72..138
user_hsv2rgb_loop ==
    /\ pc = "loop"
    /\ fn = "hsv2rgb"
    /\ mem' = hsv2rgb_body(mem, array, inputs, srcObj.strides[2])
    /\ loaded' = loaded \cup hsv2rgb_loads(mem, inputs, srcObj.strides[2])
    /\ written' = written \cup {array, array + 1, array + 2}
    /\ array' = array + 3
    /\ inputs' = next_inputs(inputs, srcObj.strides)
    /\ k' = k + 1
    /\ pc' = IF k + 1 < results.shape[1] THEN "loop" ELSE "done"
    /\ UNCHANGED <<fn, srcObj, destObj, mem0, err, results, rowVars, wrapVars>>

\* the same of user_hsv2rgb16, lines 165..230
user_hsv2rgb16_loop ==
    /\ pc = "loop"
    /\ fn = "hsv2rgb16"
    /\ mem' = hsv2rgb16_body(mem, array, inputs, srcObj.strides[2])
    /\ loaded' = loaded \cup hsv2rgb16_loads(mem, inputs, srcObj.strides[2])
    /\ written' = written \cup {array, array + 1, array + 2}
    /\ array' = array + 3
    /\ inputs' = inputs + srcObj.strides[1]
    /\ k' = k + 1
    /\ pc' = IF k + 1 < results.shape[1] THEN "loop" ELSE "done"
    /\ UNCHANGED <<fn, srcObj, destObj, mem0, err, results, rowVars, wrapVars>>

Next == CallRaise \/ CallEnter \/ user_hsv2rgb_loop \/ user_hsv2rgb16_loop

Spec == Init /\ [][Next]_vars

----------------------------------------------------------------------------
(* Properties of a call, checked under Spec *)

\* number of rows of the source
N == srcObj.shape[1]

\* address of channel c of logical row i of the source view
SrcAddr(i, c) == srcObj.array + i * srcObj.strides[1] + c * srcObj.strides[2]

\* bytes of the elements of the source view
SrcAddrs ==
    {SrcAddr(i, c) + b : i \in 0 .. N - 1, c \in 0 .. 2,
                         b \in 0 .. itemsize(srcObj.dtype) - 1}

\* bytes of the destination buffer
DestAddrs == {results.array + j : j \in 0 .. 3 * N - 1}

\* logical row i of a uint8 source as it was when the call was made
LogicalRow8(i) ==
    <<mem0[SrcAddr(i, 0)], mem0[SrcAddr(i, 1)], mem0[SrcAddr(i, 2)]>>

\* row i of the destination now
DestRow(i) ==
    <<mem[results.array + 3 * i], mem[results.array + 3 * i + 1],
      mem[results.array + 3 * i + 2]>>

\* every destination row holds the conversion of a dense copy of the
\* source's logical row
RowsConverted == \A i \in 0 .. N - 1 : DestRow(i) = RowOut8(LogicalRow8(i))

SrcBad ==
    \/ srcObj.kind # "ndarray"
    \/ srcObj.dtype # (IF fn = "hsv2rgb" THEN "uint8" ELSE "int16")
    \/ srcObj.ndim # 2
    \/ srcObj.shape[2] # 3

DestBad ==
    /\ destObj.kind # "none"
    /\ \/ destObj.kind # "ndarray"
       \/ destObj.strides # dense_strides(destObj.shape, destObj.dtype)
       \/ destObj.ndim # srcObj.ndim
       \/ destObj.shape # srcObj.shape
       \/ destObj.dtype # "uint8"

\* C3: a call whose source has the wrong dtype or shape, or whose destination
\* is not an ndarray, not dense, or of another shape or dtype, raises before
\* any byte is loaded or stored, and the heap is what it was before the call;
\* no other call raises.
C3_AllOrNothing ==
    /\ (pc # "idle" /\ (SrcBad \/ DestBad)) => pc = "error"
    /\ pc = "error" =>
        /\ SrcBad \/ DestBad
        /\ err # ""
        /\ mem = mem0
        /\ written = {}
        /\ loaded = {}

\* hsv2rgb16 refused a dense int16 destination of the right shape
C3_Witness ==
    /\ pc = "error"
    /\ fn = "hsv2rgb16"
    /\ ~SrcBad
    /\ N = 2
    /\ destObj.kind = "ndarray"
    /\ destObj.dtype = "int16"
    /\ err = "output does not match the expected dtype"
    /\ mem = mem0

\* C4: for a source view of shape (N, 3), N >= 1, of any row and channel
\* stride, and a destination apart from it, hsv2rgb leaves in destination
\* row i the conversion of the view's logical row i.
C4_StrideCorrect ==
    (pc = "done" /\ fn = "hsv2rgb" /\ N >= 1 /\ DestAddrs \cap SrcAddrs = {})
        => RowsConverted

\* a reversed view with every second channel, two different rows
C4_Witness ==
    /\ pc = "done"
    /\ fn = "hsv2rgb"
    /\ N = 2
    /\ srcObj.strides[1] < 0
    /\ srcObj.strides[2] = 2
    /\ DestAddrs \cap SrcAddrs = {}
    /\ LogicalRow8(0) # LogicalRow8(1)
    /\ DestRow(0) # DestRow(1)
    /\ RowsConverted

\* C7 (as claimed): for every valid source of N >= 0 rows the loop body runs N
\* times, loads only bytes of the N source rows and stores exactly the 3*N
\* bytes of the destination.
C7_ExactlyNRows ==
    pc = "done" =>
        /\ k = N
        /\ written = DestAddrs
        /\ loaded \subseteq SrcAddrs

\* the destination is a dense uint8 array lying in the source storage
Aliased == destObj.kind = "ndarray" /\ destObj.array < DstBase

\* no source row reads a byte of a destination row written before it
RowSafe ==
    \A j \in 0 .. N - 1 : \A c \in 0 .. 2 :
        SrcAddr(j, c) \notin {results.array + a : a \in 0 .. 3 * j - 1}

\* C10 (as claimed): for a destination and a source view over the same
\* storage, the identical buffer or a view in another row order, the final
\* destination is what a disjoint destination would have received.
C10_Original ==
    (pc = "done" /\ fn = "hsv2rgb" /\ N >= 1 /\ Aliased) => RowsConverted

\* C10 (amended): for a destination and a source view over the same storage
\* in which no row reads a byte of an earlier destination row (the identical
\* buffer is such a view), the final destination is what a disjoint
\* destination would have received.
C10_RowSafeAliasing ==
    (pc = "done" /\ fn = "hsv2rgb" /\ N >= 1 /\ Aliased /\ RowSafe)
        => RowsConverted

\* source and destination are the identical dense buffer of two rows
C10_Witness ==
    /\ pc = "done"
    /\ fn = "hsv2rgb"
    /\ N = 2
    /\ destObj.kind = "ndarray"
    /\ destObj.array = srcObj.array
    /\ srcObj.strides = <<3, 1>>
    /\ mem # mem0
    /\ RowsConverted

----------------------------------------------------------------------------
(* Specification SpecWrap: inplace_wrap8 on an int16 ndarray *)

\* the statement of the loop body: *val = (*val + 256) % 256, in int, stored
\* back to int16_t
wrap8_element(x) == ToI16(CRem(x + 256, 256))

\* LOOP1_START / LOOP1_END around the statement: it is applied to every
\* element once
LOOP1(elements) == [i \in DOMAIN elements |-> wrap8_element(elements[i])]

InitWrap ==
    /\ \/ /\ wdtype = "int16"
          /\ \/ \E x \in -32768 .. 32767 : warr = <<x>>
             \/ warr = <<300, -1, 256, 0>>
             \/ \E x \in WideSamples, y \in WideSamples : warr = <<x, y>>
       \/ /\ wdtype = "uint8"
          /\ \E x \in SatSamples : warr = <<x>>
    /\ warr0 = warr
    /\ wpc = "idle"
    /\ CallIdle
    /\ RowIdle

user_inplace_wrap8_raise ==
    /\ wpc = "idle"
    /\ wdtype # "int16"
    /\ wpc' = "error"
    /\ UNCHANGED <<warr, warr0, wdtype, callVars, rowVars>>

user_inplace_wrap8 ==
    /\ wpc = "idle"
    /\ wdtype = "int16"
    /\ warr' = LOOP1(warr)
    /\ wpc' = "done"
    /\ UNCHANGED <<warr0, wdtype, callVars, rowVars>>

NextWrap == user_inplace_wrap8_raise \/ user_inplace_wrap8

SpecWrap == InitWrap /\ [][NextWrap]_vars

\* C6 (as claimed): after inplace_wrap8 every element is in 0..255 and is
\* congruent modulo 256 to the element before the call.
C6_WrapIntoByteRange ==
    wpc = "done" =>
        \A i \in DOMAIN warr :
            /\ warr[i] \in 0 .. 255
            /\ (warr[i] - warr0[i]) % 256 = 0

----------------------------------------------------------------------------
(* Properties of one row, checked under SpecRow *)

Abs(x) == IF x < 0 THEN 0 - x ELSE x

Within(t, c, tol) == \A i \in 1 .. 3 : Abs(t[i] - c[i]) <= tol

BoundaryHues == {0, 43, 85, 128, 170, 213}

\* red, yellow, green, cyan, blue, magenta, in the order of the boundary hues
BoundaryColour(h) ==
    CASE h = 0   -> <<255, 0, 0>>
      [] h = 43  -> <<255, 255, 0>>
      [] h = 85  -> <<0, 255, 0>>
      [] h = 128 -> <<0, 255, 255>>
      [] h = 170 -> <<0, 0, 255>>
      [] h = 213 -> <<255, 0, 255>>

IsBoundaryRow == hsv[1] \in BoundaryHues /\ hsv[2] = 255 /\ hsv[3] = 255

\* C1 (as claimed): with S = V = 255 the six boundary hues give red, yellow,
\* green, cyan, blue, magenta with every channel within 2 of the colour.
C1_Original ==
    (rgb8 # <<>> /\ IsBoundaryRow) => Within(rgb8, BoundaryColour(hsv[1]), 2)

\* C1 (amended): with S = V = 255 the six boundary hues give red, yellow,
\* green, cyan, blue, magenta with every channel within 3 of the colour.
C1_BoundaryHues ==
    (rgb8 # <<>> /\ IsBoundaryRow) => Within(rgb8, BoundaryColour(hsv[1]), 3)

\* hue 170 is converted to (0, 3, 255): green is 3 away from blue's 0
C1_Witness == hsv = <<170, 255, 255>> /\ rgb8 = <<0, 3, 255>>

\* C2: for a row of bytes, hsv2rgb16 on the int16 triple writes the same
\* three bytes as hsv2rgb on the uint8 triple.
C2_SameOutput ==
    (IsByteRow(hsv) /\ rgb8 # <<>> /\ rgb16 # <<>>) => rgb16 = rgb8

C2_Witness ==
    hsv = <<100, 128, 255>> /\ rgb8 # <<>> /\ rgb16 = rgb8

\* C5: a row whose saturation is 0 comes out as (V, V, V) from both kernels,
\* whatever the hue; V is the byte of the value channel (an int16 value
\* outside 0..255 is held by its low byte, which is V itself inside 0..255).
C5_Gray ==
    hsv[2] = 0 =>
        /\ rgb8 # <<>> => rgb8 = <<hsv[3], hsv[3], hsv[3]>>
        /\ rgb16 # <<>> => rgb16 = <<ToU8(hsv[3]), ToU8(hsv[3]), ToU8(hsv[3])>>

C5_Witness ==
    /\ hsv = <<77, 0, 200>>
    /\ rgb8 = <<200, 200, 200>>
    /\ rgb16 = <<200, 200, 200>>

\* index in the output row of the slot the "min" channel is stored through
MinSlot(h) == swap_pointers(ToU8(ToU16(h * 6) \div 256), 1, 2, 3).b

\* the 16-bit steps of ww computed without wrap-around
WwExact(v, s) == (v * (255 - s) + 1) + ((v * (255 - s) + 1) \div 256)

IsChromaticByteRow == IsByteRow(hsv) /\ hsv[2] >= 1

\* C8 (as claimed): for S in 1..255 and V in 0..255 the byte stored to the
\* min slot is round(V * (255 - S) / 255) and the uint16_t never overflows.
C8_Original ==
    (IsChromaticByteRow /\ rgb8 # <<>> /\ rgb16 # <<>>) =>
        /\ rgb8[MinSlot(hsv[1])] = (2 * hsv[3] * (255 - hsv[2]) + 255) \div 510
        /\ rgb16[MinSlot(hsv[1])] = (2 * hsv[3] * (255 - hsv[2]) + 255) \div 510
        /\ WwExact(hsv[3], hsv[2]) < 65536

\* C8 (amended): for S in 1..255 and V in 0..255 the byte stored to the min
\* slot is floor(V * (255 - S) / 255) and the uint16_t never overflows.
C8_MinChannelFloor ==
    (IsChromaticByteRow /\ rgb8 # <<>> /\ rgb16 # <<>>) =>
        /\ rgb8[MinSlot(hsv[1])] = (hsv[3] * (255 - hsv[2])) \div 255
        /\ rgb16[MinSlot(hsv[1])] = (hsv[3] * (255 - hsv[2])) \div 255
        /\ WwExact(hsv[3], hsv[2]) < 65536
        /\ min_channel_ww(hsv[3], hsv[2]) = WwExact(hsv[3], hsv[2])

\* V = 1, S = 1: 254 / 255 rounds to 1, the stored byte is 0
C8_Witness ==
    hsv = <<0, 1, 1>> /\ rgb8 = <<1, 0, 0>> /\ rgb16 = <<1, 0, 0>>

\* C9 (as claimed): the output of hsv2rgb16 depends only on the low byte of
\* each of H, S and V.
C9_LowBytesOnly ==
    rgb16 # <<>> => rgb16 = RowOut16(<<ToU8(hsv[1]), ToU8(hsv[2]), ToU8(hsv[3])>>)

====
